---------------------------- MODULE Spec2Model ----------------------------
(***************************************************************************)
(* Model of the service run loop of src/main.rs: run_service, the control  *)
(* handler closure it registers with the SCM (event_handler) and the       *)
(* polling loop wait_for_stop_signal.                                      *)
(*                                                                         *)
(* Two threads share one mpsc channel: the SCM's dispatch thread calls     *)
(* event_handler, the service thread executes run_service.  Each call the  *)
(* service thread makes into the OS or the SCM is one step of the model;   *)
(* the outcome of a call that returns a Result is chosen by the            *)
(* environment.                                                            *)
(***************************************************************************)
EXTENDS Integers, Sequences, FiniteSets

VARIABLES
    pc,              \* position of the service thread inside run_service
    registered,      \* event_handler is registered with the SCM
    control_rx,      \* messages in flight on the channel (control_tx, control_rx)
    child,           \* the spawned cmd.exe: "none", "alive", "exited", "killed"
    reaped,          \* the run loop has collected the child's exit status
    status,          \* every set_service_status call made so far, in order
    stop_requested,  \* return value of wait_for_stop_signal ("unset" before)
    result,          \* what run_service returned ("none" while running)
    controls,        \* every control request the SCM delivered, with its reply
    kills,           \* outcomes of the child.kill() calls made so far
    waits,           \* number of child.wait() calls that returned
    sleeps,          \* number of thread::sleep calls, counted up to MaxSleeps
    tie              \* some try_recv ran with a Stop queued and the child exited

vars == <<pc, registered, control_rx, child, reaped, status, stop_requested,
          result, controls, kills, waits, sleeps, tie>>

\* Bounds of the model.
MaxControls == 3
MaxSleeps == 2

ControlKinds == {"Stop", "Pause", "Continue", "Interrogate"}

LoopPc == {"try_recv", "kill", "wait", "try_wait", "sleep"}

Min(a, b) == IF a < b THEN a ELSE b

Last(s) == s[Len(s)]

States(s) == {s[i].state : i \in 1..Len(s)}

Count(s, st) == Cardinality({i \in 1..Len(s) : s[i].state = st})

-----------------------------------------------------------------------------
(* The three ServiceStatus values run_service builds. *)

StatusStartPending ==
    [state |-> "StartPending", controls_accepted |-> {"Stop"}, checkpoint |-> 1]

\* Variant: the Running block is a copy of the StartPending block whose
\* current_state was not changed.
StatusRunning_CopyPaste ==
    [state |-> "StartPending", controls_accepted |-> {"Stop"}, checkpoint |-> 0]

StatusRunning ==
    [state |-> "Running", controls_accepted |-> {"Stop"}, checkpoint |-> 0]

StatusStopped ==
    [state |-> "Stopped", controls_accepted |-> {}, checkpoint |-> 0]

\* status_handle.set_service_status(st): the call is recorded with its outcome.
set_service_status(st, ok) ==
    status' = Append(status,
                     [state |-> st.state,
                      controls_accepted |-> st.controls_accepted,
                      checkpoint |-> st.checkpoint,
                      ok |-> ok])

\* `?` on an Err: run_service returns the error; control_rx and child are dropped
\* (dropping a Child does not kill the process).
ReturnErr(kind) ==
    /\ pc' = "done"
    /\ result' = kind

-----------------------------------------------------------------------------
(* The control handler closure. *)

\* Variant: the handler acknowledges every control request.
HandlerResult_AlwaysNoError(control_event) == "NoError"

\* The reply event_handler gives the SCM for a control request.
HandlerResult(control_event) ==
    IF control_event = "Stop" THEN "NoError" ELSE "NotImplemented"

\* Variant: Pause and Continue are forwarded like Stop.
HandlerSends_PauseContinueToo(control_event) ==
    control_event \in {"Stop", "Pause", "Continue"}

\* Variant: every control request is forwarded (the `if let` is missing).
HandlerSends_Always(control_event) == TRUE

\* Whether event_handler calls control_tx.send("stop") for a control request.
HandlerSends(control_event) == control_event = "Stop"

\* Variant: messages sent before the polling loop has started are lost.
Send_OnlyWhileRunning(q, msg) ==
    IF pc \in {"try_recv", "kill", "wait", "try_wait", "sleep", "report_stopped",
               "return_ok"}
    THEN Append(q, msg) ELSE q

\* control_tx.send: the message is queued while the receiver exists; once
\* run_service has returned the receiver is gone, send returns Err and the
\* handler discards it (`let _ =`).
Send(q, msg) == IF pc = "done" THEN q ELSE Append(q, msg)

event_handler(control_event) ==
    /\ registered
    /\ Len(controls) < MaxControls
    /\ control_rx' = IF HandlerSends(control_event)
                     THEN Send(control_rx, "stop")
                     ELSE control_rx
    /\ controls' = Append(controls,
                          [kind |-> control_event,
                           reply |-> HandlerResult(control_event),
                           queued |-> HandlerSends(control_event) /\ pc # "done",
                           child |-> child,
                           early |-> pc \in {"start_pending", "spawn", "running"}])
    /\ UNCHANGED <<pc, registered, child, reaped, status, stop_requested,
                   result, kills, waits, sleeps, tie>>

-----------------------------------------------------------------------------
(* run_service, up to the call of wait_for_stop_signal. *)

\* Variant: a failed registration is answered with a Stopped report before
\* the error is returned.
Register_ReportsOnFailure ==
    /\ pc = "register"
    /\ \E ok \in BOOLEAN :
         IF ok
         THEN /\ registered' = TRUE
              /\ pc' = "start_pending"
              /\ UNCHANGED <<result, status>>
         ELSE /\ \E sent \in BOOLEAN : set_service_status(StatusStopped, sent)
              /\ ReturnErr("register_err")
              /\ UNCHANGED registered
    /\ UNCHANGED <<control_rx, child, reaped, stop_requested,
                   controls, kills, waits, sleeps, tie>>

Register ==
    /\ pc = "register"
    /\ \E ok \in BOOLEAN :
         IF ok
         THEN /\ registered' = TRUE
              /\ pc' = "start_pending"
              /\ UNCHANGED result
         ELSE /\ ReturnErr("register_err")
              /\ UNCHANGED registered
    /\ UNCHANGED <<control_rx, child, reaped, status, stop_requested,
                   controls, kills, waits, sleeps, tie>>

ReportStartPending ==
    /\ pc = "start_pending"
    /\ \E ok \in BOOLEAN :
         /\ set_service_status(StatusStartPending, ok)
         /\ IF ok
            THEN pc' = "spawn" /\ UNCHANGED result
            ELSE ReturnErr("status_err")
    /\ UNCHANGED <<registered, control_rx, child, reaped, stop_requested,
                   controls, kills, waits, sleeps, tie>>

Spawn ==
    /\ pc = "spawn"
    /\ \E ok \in BOOLEAN :
         IF ok
         THEN /\ child' = "alive"
              /\ pc' = "running"
              /\ UNCHANGED <<result, status>>
         ELSE /\ ReturnErr("spawn_err")
              /\ UNCHANGED <<child, status>>
    /\ UNCHANGED <<registered, control_rx, reaped, stop_requested,
                   controls, kills, waits, sleeps, tie>>

\* Variant: a failed Running report is sent again.
ReportRunning_Retry ==
    /\ pc = "running"
    /\ \E ok \in BOOLEAN :
         /\ set_service_status(StatusRunning, ok)
         /\ pc' = IF ok THEN "try_recv" ELSE "running"
         /\ UNCHANGED result
    /\ UNCHANGED <<registered, control_rx, child, reaped, stop_requested,
                   controls, kills, waits, sleeps, tie>>

ReportRunning ==
    /\ pc = "running"
    /\ \E ok \in BOOLEAN :
         /\ set_service_status(StatusRunning, ok)
         /\ IF ok
            THEN pc' = "try_recv" /\ UNCHANGED result
            ELSE ReturnErr("status_err")
    /\ UNCHANGED <<registered, control_rx, child, reaped, stop_requested,
                   controls, kills, waits, sleeps, tie>>

-----------------------------------------------------------------------------
(* wait_for_stop_signal: one poll iteration is try_recv, then either          *)
(* kill + wait (return true) or try_wait (return false, or sleep and retry).  *)

\* `if let Ok("stop") = control_rx.try_recv()`: try_recv takes the oldest
\* message off the channel if there is one; the branch is entered when that
\* message is "stop".
RecvMatches(q) == q # <<>> /\ Head(q) = "stop"

\* Variant: the child's exit is checked before the channel.
TryRecv_ExitFirst ==
    /\ pc = "try_recv"
    /\ control_rx' = IF control_rx = <<>> \/ child = "exited"
                     THEN control_rx ELSE Tail(control_rx)
    /\ pc' = IF child # "exited" /\ RecvMatches(control_rx) THEN "kill" ELSE "try_wait"
    /\ tie' = (tie \/ (control_rx # <<>> /\ child = "exited"))
    /\ UNCHANGED <<registered, child, reaped, status, stop_requested,
                   result, controls, kills, waits, sleeps>>

\* Variant: the channel is inspected without taking the message off it.
TryRecv_Peek ==
    /\ pc = "try_recv"
    /\ pc' = IF RecvMatches(control_rx) THEN "kill" ELSE "try_wait"
    /\ tie' = (tie \/ (control_rx # <<>> /\ child = "exited"))
    /\ UNCHANGED <<registered, control_rx, child, reaped, status, stop_requested,
                   result, controls, kills, waits, sleeps>>

TryRecv ==
    /\ pc = "try_recv"
    /\ control_rx' = IF control_rx = <<>> THEN control_rx ELSE Tail(control_rx)
    /\ pc' = IF RecvMatches(control_rx) THEN "kill" ELSE "try_wait"
    /\ tie' = (tie \/ (control_rx # <<>> /\ child = "exited"))
    /\ UNCHANGED <<registered, child, reaped, status, stop_requested,
                   result, controls, kills, waits, sleeps>>

\* Variant: the Stop branch waits for the child without killing it.
Kill_Omitted ==
    /\ pc = "kill"
    /\ pc' = "wait"
    /\ UNCHANGED <<registered, control_rx, child, reaped, status, stop_requested,
                   result, controls, kills, waits, sleeps, tie>>

\* Variant: a failed kill is tried again.
Kill_RetryOnError ==
    /\ pc = "kill"
    /\ \E ok \in BOOLEAN :
         /\ kills' = Append(kills, [ok |-> ok, was |-> child])
         /\ child' = IF child = "alive" /\ ok THEN "killed" ELSE child
         /\ pc' = IF ok THEN "wait" ELSE "kill"
    /\ UNCHANGED <<registered, control_rx, reaped, status, stop_requested,
                   result, controls, waits, sleeps, tie>>

\* `let _ = child.kill()`: a live child is terminated when the call succeeds
\* and stays alive when it fails; on a child that has already exited the call
\* changes nothing.  The Result is discarded.
Kill ==
    /\ pc = "kill"
    /\ \E ok \in BOOLEAN :
         /\ kills' = Append(kills, [ok |-> ok, was |-> child])
         /\ child' = IF child = "alive" /\ ok THEN "killed" ELSE child
    /\ pc' = "wait"
    /\ UNCHANGED <<registered, control_rx, reaped, status, stop_requested,
                   result, controls, waits, sleeps, tie>>

\* Variant: the Stop branch lacks its `return true` and falls through to the
\* try_wait of the same iteration.
Wait_NoReturn ==
    /\ pc = "wait"
    /\ child \in {"exited", "killed"}
    /\ reaped' = TRUE
    /\ waits' = waits + 1
    /\ pc' = "try_wait"
    /\ UNCHANGED <<registered, control_rx, child, status, stop_requested, result,
                   controls, kills, sleeps, tie>>

\* child.wait() returning Ok: the call blocks until the child has exited and
\* collects its status; then `return true`.
WaitOk ==
    /\ pc = "wait"
    /\ child \in {"exited", "killed"}
    /\ reaped' = TRUE
    /\ waits' = waits + 1
    /\ stop_requested' = "true"
    /\ pc' = "report_stopped"
    /\ UNCHANGED <<registered, control_rx, child, status, result, controls,
                   kills, sleeps, tie>>

\* child.wait() returning Err: no status is collected and the child is left
\* as it is, alive or not; the Result is discarded (`let _ =`) and the
\* function returns true all the same.
WaitErr ==
    /\ pc = "wait"
    /\ waits' = waits + 1
    /\ stop_requested' = "true"
    /\ pc' = "report_stopped"
    /\ UNCHANGED <<registered, control_rx, child, reaped, status, result,
                   controls, kills, sleeps, tie>>

\* `let _ = child.wait(); return true`
Wait == WaitOk \/ WaitErr

\* The values child.try_wait() can return: Ok(Some(_)) only once the child
\* has exited, Ok(None) only while it runs, Err(_) when the OS call fails.
TryWaitResults(c) ==
    IF c \in {"exited", "killed"} THEN {"Some", "Err"} ELSE {"None", "Err"}

\* Variant: the natural-exit branch returns to the caller of run_service
\* without the final report.
TryWait_EarlyReturn ==
    /\ pc = "try_wait"
    /\ \E r \in TryWaitResults(child) :
         IF r = "Some"
         THEN /\ reaped' = TRUE
              /\ stop_requested' = "false"
              /\ pc' = "done"
              /\ result' = "Ok"
         ELSE /\ pc' = "sleep"
              /\ UNCHANGED <<reaped, stop_requested, result>>
    /\ UNCHANGED <<registered, control_rx, child, status, controls,
                   kills, waits, sleeps, tie>>

\* Variant: any Ok from try_wait is taken for an exit (`if let Ok(_) =`).
TryWait_AnyOk ==
    /\ pc = "try_wait"
    /\ \E r \in TryWaitResults(child) :
         IF r # "Err"
         THEN /\ reaped' = (r = "Some")
              /\ stop_requested' = "false"
              /\ pc' = "report_stopped"
         ELSE /\ pc' = "sleep"
              /\ UNCHANGED <<reaped, stop_requested>>
    /\ UNCHANGED <<registered, control_rx, child, status, result, controls,
                   kills, waits, sleeps, tie>>

\* Variant: the natural-exit branch returns true.
TryWait_ReturnsTrue ==
    /\ pc = "try_wait"
    /\ \E r \in TryWaitResults(child) :
         IF r = "Some"
         THEN /\ reaped' = TRUE
              /\ stop_requested' = "true"
              /\ pc' = "report_stopped"
         ELSE /\ pc' = "sleep"
              /\ UNCHANGED <<reaped, stop_requested>>
    /\ UNCHANGED <<registered, control_rx, child, status, result, controls,
                   kills, waits, sleeps, tie>>

\* `if let Ok(Some(_)) = child.try_wait() { return false; }`
TryWait ==
    /\ pc = "try_wait"
    /\ \E r \in TryWaitResults(child) :
         IF r = "Some"
         THEN /\ reaped' = TRUE
              /\ stop_requested' = "false"
              /\ pc' = "report_stopped"
         ELSE /\ pc' = "sleep"
              /\ UNCHANGED <<reaped, stop_requested>>
    /\ UNCHANGED <<registered, control_rx, child, status, result, controls,
                   kills, waits, sleeps, tie>>

\* thread::sleep(Duration::from_secs(1)), then the next iteration.
Sleep ==
    /\ pc = "sleep"
    /\ sleeps' = Min(sleeps + 1, MaxSleeps)
    /\ pc' = "try_recv"
    /\ UNCHANGED <<registered, control_rx, child, reaped, status,
                   stop_requested, result, controls, kills, waits, tie>>

-----------------------------------------------------------------------------
(* run_service after wait_for_stop_signal has returned. *)

\* The Stopped report; on Err `?` returns the error, on Ok the function goes
\* on to its last log line.
ReportStopped ==
    /\ pc = "report_stopped"
    /\ \E ok \in BOOLEAN :
         /\ set_service_status(StatusStopped, ok)
         /\ IF ok
            THEN pc' = "return_ok" /\ UNCHANGED result
            ELSE ReturnErr("status_err")
    /\ UNCHANGED <<registered, control_rx, child, reaped, stop_requested,
                   controls, kills, waits, sleeps, tie>>

\* `info!("... has stopped."); Ok(())`: run_service returns and control_rx is
\* dropped with whatever is still on it.
ReturnOk ==
    /\ pc = "return_ok"
    /\ pc' = "done"
    /\ result' = "Ok"
    /\ UNCHANGED <<registered, control_rx, child, reaped, status, stop_requested,
                   controls, kills, waits, sleeps, tie>>

-----------------------------------------------------------------------------
(* The environment. *)

\* The SCM's dispatch thread delivers a control request to the handler.
Deliver == \E control_event \in ControlKinds : event_handler(control_event)

\* The child process ends on its own.
ChildExit ==
    /\ child = "alive"
    /\ child' = "exited"
    /\ UNCHANGED <<pc, registered, control_rx, reaped, status, stop_requested,
                   result, controls, kills, waits, sleeps, tie>>

-----------------------------------------------------------------------------

Init ==
    /\ pc = "register"
    /\ registered = FALSE
    /\ control_rx = <<>>
    /\ child = "none"
    /\ reaped = FALSE
    /\ status = <<>>
    /\ stop_requested = "unset"
    /\ result = "none"
    /\ controls = <<>>
    /\ kills = <<>>
    /\ waits = 0
    /\ sleeps = 0
    /\ tie = FALSE

\* The steps of the service thread.
run_service ==
    \/ Register
    \/ ReportStartPending
    \/ Spawn
    \/ ReportRunning
    \/ TryRecv
    \/ Kill
    \/ Wait
    \/ TryWait
    \/ Sleep
    \/ ReportStopped
    \/ ReturnOk

Next ==
    \/ Register
    \/ ReportStartPending
    \/ Spawn
    \/ ReportRunning
    \/ TryRecv
    \/ Kill
    \/ Wait
    \/ TryWait
    \/ Sleep
    \/ ReportStopped
    \/ ReturnOk
    \/ Deliver
    \/ ChildExit

Spec == Init /\ [][Next]_vars

\* The steps the service thread is bound to take: every step of run_service
\* except a failure of the blocking child.wait(), which nothing guarantees.
Progress ==
    \/ Register
    \/ ReportStartPending
    \/ Spawn
    \/ ReportRunning
    \/ TryRecv
    \/ Kill
    \/ WaitOk
    \/ TryWait
    \/ Sleep
    \/ ReportStopped
    \/ ReturnOk

\* The service thread is an ordinary OS thread: whenever its next call can
\* return, it eventually does.  Nothing obliges the SCM to deliver a request,
\* the child to exit or a blocked wait to fail.
FairSpec == Spec /\ WF_vars(Progress)

TypeOK ==
    /\ pc \in {"register", "start_pending", "spawn", "running", "report_stopped",
               "return_ok", "done"} \cup LoopPc
    /\ registered \in BOOLEAN
    /\ child \in {"none", "alive", "exited", "killed"}
    /\ reaped \in BOOLEAN
    /\ stop_requested \in {"unset", "true", "false"}
    /\ result \in {"none", "Ok", "register_err", "status_err", "spawn_err"}
    /\ Len(controls) <= MaxControls
    /\ Len(control_rx) <= MaxControls
    /\ sleeps <= MaxSleeps

-----------------------------------------------------------------------------
(* Properties. *)

\* The run entered wait_for_stop_signal and the function has returned.
LoopReturned == stop_requested # "unset"

\* The indices of the Stop requests the SCM has delivered.
Stops == {i \in 1..Len(controls) : controls[i].kind = "Stop"}

\* The number of Stop messages try_recv has taken off the channel.
StopsConsumed ==
    Cardinality({i \in Stops : controls[i].queued}) - Len(control_rx)

\* The child has ended on its own and no Stop was delivered before it did.
NaturalExitFirst ==
    /\ child = "exited"
    /\ \A i \in Stops : controls[i].child = "exited"

\* C1: when spawning the child fails, a Stopped status is reported before
\* run_service returns the error, and Running is never reported.
C1_SpawnFailureReportsStopped ==
    (pc = "done" /\ result = "spawn_err") =>
        /\ "Stopped" \in States(status)
        /\ "Running" \notin States(status)

\* C2: a run that enters the reconciliation loop reports Stopped exactly
\* once, after the loop has ended and before run_service returns, whichever
\* way the loop ended.
C2_StoppedExactlyOnce ==
    /\ (pc \in LoopPc \cup {"report_stopped"}) => Count(status, "Stopped") = 0
    /\ (pc \in {"report_stopped", "return_ok"}) => LoopReturned
    /\ (pc \in {"return_ok", "done"} /\ LoopReturned) =>
           /\ Count(status, "Stopped") = 1
           /\ Last(status).state = "Stopped"

C2_Witness ==
    /\ pc = "done"
    /\ stop_requested = "false"
    /\ Count(status, "Stopped") = 1
    /\ sleeps >= 1

\* C3: when no Stop is among the control requests the SCM has delivered,
\* Stopped is never reported while the child is alive.
C3_NoStopNoStoppedWhileAlive ==
    (Stops = {}) => ~("Stopped" \in States(status) /\ child = "alive")

C3_Witness ==
    /\ Stops = {}
    /\ \E i, j \in 1..Len(controls) :
         controls[i].kind = "Pause" /\ controls[j].kind = "Continue"
    /\ "Stopped" \in States(status)
    /\ child = "exited"

\* C4 as stated: when the child exits naturally before any Stop is delivered,
\* kill is never invoked and the run is recorded as natural termination, even
\* when a Stop is delivered after the exit and before the next poll.
C4_NaturalExitNeverKills ==
    NaturalExitFirst => (kills = <<>> /\ stop_requested # "true")

\* C4 as amended: when the child exits naturally before any Stop is delivered
\* and try_recv takes no Stop off the channel before try_wait observes the
\* exit, kill is never invoked, wait_for_stop_signal returns false and the
\* Stopped report follows.
C4_NaturalExitUnlessStopConsumed ==
    (NaturalExitFirst /\ StopsConsumed = 0) =>
        /\ kills = <<>>
        /\ waits = 0
        /\ stop_requested # "true"
        /\ (pc \in {"report_stopped", "return_ok", "done"} /\ LoopReturned) =>
               (stop_requested = "false" /\ reaped)
        /\ (pc \in {"return_ok", "done"} /\ LoopReturned) =>
               Last(status).state = "Stopped"

C4_Witness ==
    /\ pc = "done"
    /\ NaturalExitFirst
    /\ Stops # {}
    /\ StopsConsumed = 0
    /\ stop_requested = "false"
    /\ Last(status).state = "Stopped"

\* C5: when a try_recv runs with a Stop pending and the child already exited,
\* that iteration takes the Stop path: kill is attempted, the child is waited
\* on, wait_for_stop_signal returns true and Stopped is reported next; the
\* natural-exit path is not taken.
C5_StopWinsTie ==
    tie =>
        /\ pc \in {"kill", "wait", "report_stopped", "return_ok", "done"}
        /\ stop_requested # "false"
        /\ (pc # "kill") => Len(kills) = 1
        /\ (pc \in {"report_stopped", "return_ok", "done"}) =>
               (waits = 1 /\ stop_requested = "true")
        /\ (pc \in {"return_ok", "done"}) => Last(status).state = "Stopped"

C5_Witness ==
    /\ tie
    /\ pc = "done"
    /\ stop_requested = "true"
    /\ Len(kills) = 1
    /\ kills[1].was = "exited"
    /\ Last(status).state = "Stopped"

\* Some child.kill() call returned an error.
KillFailed == \E i \in 1..Len(kills) : ~kills[i].ok

\* The child.wait() call returned an error: it was made and collected nothing.
WaitFailed == waits > 0 /\ ~reaped

\* Some set_service_status call returned an error.
ReportFailed == \E i \in 1..Len(status) : ~status[i].ok

\* The run has ended through the Stop path with every report accepted.
StoppedByStop ==
    /\ pc = "done"
    /\ result = "Ok"
    /\ stop_requested = "true"
    /\ Last(status).state = "Stopped"
    /\ Last(status).controls_accepted = {}
    /\ Len(kills) = 1
    /\ waits = 1
    /\ reaped
    /\ child # "alive"

\* The run has ended through the natural-exit path although a Stop was
\* queued: the child exited on its own and try_wait observed it before a
\* try_recv saw the Stop.
StoppedByExitFirst ==
    /\ pc = "done"
    /\ stop_requested = "false"
    /\ Last(status).state = "Stopped"
    /\ Last(status).controls_accepted = {}
    /\ kills = <<>>
    /\ reaped
    /\ child = "exited"
    /\ control_rx # <<>>

\* A Stop is queued while the loop is polling and the child is alive.
StopWhileRunning ==
    /\ pc \in {"try_recv", "try_wait", "sleep"}
    /\ control_rx # <<>>
    /\ child = "alive"

\* C6 as stated (under FairSpec): a Stop queued while the loop is polling and
\* the child is alive leads, unless kill or a report fails, to the child
\* killed and reaped and Stopped reported with no accepted controls.
C6_StopKillsAndReports ==
    StopWhileRunning ~> (KillFailed \/ ReportFailed \/ StoppedByStop)

\* C6 as amended (under FairSpec): the same for successful kill, wait and
\* report calls, except that when the child exits on its own between the
\* try_recv and the try_wait of the iteration in which the Stop arrives, the
\* run ends through the natural-exit path: Stopped is reported with no
\* accepted controls and kill is not invoked.  The run never depends on the
\* child exiting on its own.
C6_StopKillsOrExitFirst ==
    StopWhileRunning ~>
        (KillFailed \/ WaitFailed \/ ReportFailed \/ StoppedByStop
           \/ StoppedByExitFirst)

C6_Witness ==
    /\ StoppedByStop
    /\ child = "killed"
    /\ kills[1].ok
    /\ kills[1].was = "alive"
    /\ ~ReportFailed

\* C7 (under FairSpec): when kill fails on the Stop path and the child stays
\* alive, the run still completes: run_service returns, with Stopped reported.
C7_KillFailureStillCompletes ==
    (pc = "wait" /\ KillFailed /\ child = "alive")
        ~> (pc = "done" /\ "Stopped" \in States(status))

\* A step in which the SCM delivers a Pause or a Continue.
PauseContinueStep ==
    /\ Len(controls') = Len(controls) + 1
    /\ Last(controls').kind \in {"Pause", "Continue"}

\* C8 as stated: every Pause or Continue the SCM delivers is acknowledged
\* with the no-error code.
C8_PauseContinueAcknowledged ==
    \A i \in 1..Len(controls) :
        controls[i].kind \in {"Pause", "Continue"} => controls[i].reply = "NoError"

\* C8 as amended: a Pause or Continue is answered "not implemented", and the
\* request changes neither the position of the run in its state machine nor
\* the reports made, nor the child.
C8_PauseContinueNotImplemented ==
    [][PauseContinueStep =>
          /\ Last(controls').reply = "NotImplemented"
          /\ UNCHANGED <<pc, status, stop_requested, result, child, reaped>>]_vars

C8_Witness ==
    /\ \E i \in 1..Len(controls) :
         /\ controls[i].kind \in {"Pause", "Continue"}
         /\ controls[i].child = "alive"
         /\ controls[i].reply = "NotImplemented"
    /\ pc \in LoopPc
    /\ child = "alive"
    /\ Last(status).state = "Running"

\* What a run produces: the reports, the return values, what was done to the
\* child and what is on the channel.
Outcome == <<pc, status, stop_requested, result, child, reaped, kills, waits,
             control_rx>>

\* C9: Pause and Continue requests, however many, leave the outcome of the
\* run as it is without them: such a request changes nothing the run loop
\* reads or produces, the child is killed only after a delivered Stop has been
\* taken off the channel, and a run that consumed a Stop ends through the Stop
\* path.
C9_PauseContinueIrrelevant ==
    /\ [][PauseContinueStep => UNCHANGED Outcome]_vars
    /\ [](kills # <<>> => (Stops # {} /\ StopsConsumed >= 1))
    /\ []((pc = "done" /\ StopsConsumed >= 1) =>
             (stop_requested = "true" /\ Last(status).state = "Stopped"))

C9_Witness ==
    /\ Len(controls) >= 3
    /\ {controls[1].kind, controls[2].kind} = {"Pause", "Continue"}
    /\ controls[3].kind = "Stop"
    /\ StoppedByStop
    /\ child = "killed"

\* The order in which a run reports its states.
ReportOrder == <<"StartPending", "Running", "Stopped">>

\* C10: the states reported within a run are a prefix of StartPending,
\* Running, Stopped.
C10_ReportsMonotonic ==
    /\ Len(status) <= 3
    /\ \A i \in 1..Len(status) : status[i].state = ReportOrder[i]

C10_Witness ==
    /\ pc = "done"
    /\ Len(status) = 3
    /\ status[3].state = "Stopped"

\* C11: after a successful registration, every error return of run_service
\* is preceded by an attempt to report Stopped.
C11_FatalStillReportsStopped ==
    (pc = "done" /\ registered /\ result # "Ok") => "Stopped" \in States(status)

\* C12: every control request the handler acknowledged with the no-error
\* code was placed on the channel.
C12_AcknowledgedIsQueued ==
    \A i \in 1..Len(controls) :
        controls[i].reply = "NoError" => controls[i].queued

\* C13: when registering the handler fails, run_service returns the error at
\* once: no status has been reported, no child spawned, no handler installed.
C13_RegisterFailureReturnsAtOnce ==
    (result = "register_err") =>
        /\ pc = "done"
        /\ status = <<>>
        /\ child = "none"
        /\ ~registered
        /\ controls = <<>>

C13_Witness ==
    /\ result = "register_err"
    /\ pc = "done"

\* C14: a status report that fails is the last call of the run, which
\* returns the report error; each of the three reports is attempted at most
\* once.
C14_ReportFailureReturnsNoRetry ==
    /\ \A i \in 1..Len(status) :
         ~status[i].ok => (i = Len(status) /\ pc = "done" /\ result = "status_err")
    /\ \A st \in {"StartPending", "Running", "Stopped"} : Count(status, st) <= 1
    /\ (result = "status_err") => (status # <<>> /\ ~Last(status).ok)

C14_Witness ==
    /\ pc = "done"
    /\ result = "status_err"
    /\ Len(status) = 2
    /\ ~status[2].ok
    /\ child = "alive"

\* A step in which the SCM delivers a control request other than Stop, Pause
\* and Continue.
OtherControlStep ==
    /\ Len(controls') = Len(controls) + 1
    /\ Last(controls').kind \notin {"Stop", "Pause", "Continue"}

\* C15: a control request of any other kind is answered "not implemented"
\* and nothing is put on the channel; the run and the child are unaffected.
C15_OtherControlsNotImplemented ==
    [][OtherControlStep =>
          /\ Last(controls').reply = "NotImplemented"
          /\ ~Last(controls').queued
          /\ UNCHANGED <<control_rx, pc, status, stop_requested, result, child,
                         reaped, kills, waits>>]_vars

C15_Witness ==
    /\ \E i \in 1..Len(controls) :
         /\ controls[i].kind = "Interrogate"
         /\ controls[i].reply = "NotImplemented"
         /\ ~controls[i].early
         /\ controls[i].child = "alive"
    /\ pc \in LoopPc
    /\ control_rx = <<>>
    /\ child = "alive"

\* C16 as stated: when the run has ended, no event the handler enqueued is
\* left on the channel.
C16_EveryEventConsumed ==
    (pc = "done") => control_rx = <<>>

\* C16 as amended: an enqueued event is taken off the channel at most once,
\* and the run loop takes at most one event, the Stop that ends the loop;
\* events enqueued after that try_recv, or after the loop ended because the
\* child exited, stay on the channel.
C16_AtMostOneConsumed ==
    /\ StopsConsumed \in {0, 1}
    /\ (StopsConsumed = 1) <=> (pc \in {"kill", "wait"} \/ stop_requested = "true")

C16_Witness ==
    /\ pc = "done"
    /\ StopsConsumed = 1
    /\ control_rx # <<>>
    /\ stop_requested = "true"

\* C17: a child is spawned at most once per run, and once it has been reaped
\* the run makes no further kill, wait or try_wait call.
C17_OneChildNeverReused ==
    /\ [][(child' = "alive" /\ child # "alive") =>
             (child = "none" /\ pc = "spawn")]_vars
    /\ [][child # "none" => child' # "none"]_vars
    /\ [](reaped => pc \in {"report_stopped", "return_ok", "done"})
    /\ [][reaped => (reaped' /\ kills' = kills /\ waits' = waits)]_vars

C17_Witness ==
    /\ reaped
    /\ pc = "done"
    /\ Len(kills) = 1
    /\ waits = 1
    /\ kills[1].was = "alive"

\* C18: kill is invoked at most once per run and only after a Stop that the
\* SCM delivered and the handler enqueued has been taken off the channel; a
\* child is terminated only by that kill.
C18_KillOnlyOnStop ==
    /\ Len(kills) <= 1
    /\ (pc = "kill" \/ kills # <<>>) =>
           /\ \E i \in Stops : controls[i].queued
           /\ StopsConsumed = 1
    /\ (child = "killed") => (kills # <<>> /\ kills[1].ok /\ kills[1].was = "alive")

C18_Witness ==
    /\ child = "killed"
    /\ Len(kills) = 1
    /\ Cardinality(Stops) = 1
    /\ pc = "report_stopped"

\* A Stop was delivered after registration and before the polling loop.
EarlyStop == \E i \in Stops : controls[i].early

\* The run has ended through the Stop path: one kill, one wait, true
\* returned, Stopped reported with no accepted controls.
StopPathDone ==
    /\ pc = "done"
    /\ stop_requested = "true"
    /\ Len(kills) = 1
    /\ waits = 1
    /\ Last(status).state = "Stopped"
    /\ Last(status).controls_accepted = {}

\* C19 (under FairSpec): a Stop delivered between registration and the entry
\* into the polling loop is not lost: the run goes on to spawn the child and
\* report Running, the first try_recv takes the Stop, so that the loop never
\* reaches try_wait or sleep, and, unless kill or a report fails, the child
\* is killed and Stopped is reported.
C19_EarlyStopNotLost ==
    /\ [](EarlyStop =>
            /\ sleeps = 0
            /\ pc \notin {"try_wait", "sleep"}
            /\ stop_requested # "false"
            /\ (pc \in {"kill", "wait", "report_stopped"}) =>
                   /\ child # "none"
                   /\ Last(status).state = "Running"
                   /\ Last(status).ok
            /\ (pc = "done" /\ result = "Ok") => StopPathDone)
    /\ ((EarlyStop /\ pc = "try_recv")
            ~> (KillFailed \/ ReportFailed
                  \/ (StopPathDone /\ result = "Ok" /\ child # "alive")))

C19_Witness ==
    /\ controls # <<>>
    /\ controls[1].kind = "Stop"
    /\ controls[1].early
    /\ controls[1].child = "none"
    /\ StopPathDone
    /\ result = "Ok"
    /\ child = "killed"
    /\ sleeps = 0

\* C20: when run_service has returned after spawning the child, the child is
\* no longer alive and has been reaped.
C20_NoLiveChildAtReturn ==
    (pc = "done" /\ child # "none") => (child \in {"exited", "killed"} /\ reaped)

=============================================================================
